---------------------------- MODULE Spec2Model ----------------------------
(***************************************************************************)
(* A model of the plan-analysis and recommendation engine of SQL-analisys: *)
(*   - extract_metrics / analyze_query   (src/info_about_query.py)         *)
(*   - recommend_indexes and its helpers (src/rec_query.py)                *)
(*   - full_pg_analysis                  (src/info_about_query.py)         *)
(*                                                                         *)
(* Python str values whose characters the code inspects (node types,       *)
(* filters, index definitions, column names) are sequences of one-char     *)
(* strings, so that endswith, `in` and re.findall are computed and not     *)
(* assumed.  A Python dict is a function whose domain is its set of keys.  *)
(* Costs are in hundredths (EXPLAIN prints two decimals), so that          *)
(* cpu_tuple_cost = 0.01 is one unit per row.                              *)
(***************************************************************************)
EXTENDS Integers, Sequences, FiniteSets, TLC

VARIABLES
    \* ---- extract_metrics (SpecMetrics)
    plan,            \* the plan dict handed to extract_metrics
    annotated,       \* what extract_metrics returned or raised; Pending before
    \* ---- recommend_indexes (Spec)
    catalog,         \* the indexes that exist in the database (pg_indexes)
    query,           \* the plan EXPLAIN yields for the analysed query
    pc,              \* position of the current call
    hash_seed,       \* str hash randomisation of the current process
    stack,           \* pending walk(node) calls, innermost first
    seen_tables,     \* the local dict seen_tables
    recommendations, \* the local list recommendations
    fetches,         \* history: the catalog lookups of this run, in order
    visits,          \* history: the nodes walked in this run, in order, each
                     \* with the index rows its advice was decided on, whether
                     \* the catalog held other rows by then, and the advice
    changed,         \* history: the catalog changed since the first call began
    outcome,         \* what the latest call returned or raised
    previous,        \* what the call before it returned or raised
    \* ---- full_pg_analysis (SpecStats)
    statements,      \* the rows of pg_stat_statements
    feed,            \* rows of the total-time feed (the first fetchall)
    calls_feed,      \* rows of the call-count feed (the second fetchall)
    spc,             \* position of full_pg_analysis
    feed_pos,        \* position of the loop over the total-time feed
    report,          \* the report dict being built
    plan_fetches     \* history: what EXPLAIN gave for each row, in order

metricsVars == <<plan, annotated>>
advisorVars == <<catalog, query, pc, hash_seed, stack, seen_tables,
                 recommendations, fetches, visits, changed, outcome,
                 previous>>
statsVars   == <<statements, feed, calls_feed, spc, feed_pos, report,
                 plan_fetches>>
vars        == <<metricsVars, advisorVars, statsVars>>

-----------------------------------------------------------------------------
(* Python values *)

\* Python's None (distinct from every str, number, list and dict modelled)
None == <<"None">>

\* A call that has not returned yet
Pending == [pending |-> TRUE]

\* An exception that left the function, and the test for it
Raised(exc) == [raised |-> exc]
IsRaised(v) == DOMAIN v = {"raised"}

\* dict.get(key, default)
Get(d, key, default) == IF key \in DOMAIN d THEN d[key] ELSE default

\* max(a, b)
Max(a, b) == IF a >= b THEN a ELSE b

\* needle in haystack, for str
IsSubstring(needle, haystack) ==
    \E i \in 0..(Len(haystack) - Len(needle)) :
        \A k \in 1..Len(needle) : haystack[i + k] = needle[k]

\* s.endswith(suffix)
EndsWith(s, suffix) ==
    /\ Len(suffix) <= Len(s)
    /\ \A k \in 1..Len(suffix) : s[Len(s) - Len(suffix) + k] = suffix[k]

\* sep.join(parts)
RECURSIVE Join(_, _)
Join(sep, parts) ==
    IF parts = <<>> THEN <<>>
    ELSE IF Len(parts) = 1 THEN parts[1]
    ELSE parts[1] \o sep \o Join(sep, Tail(parts))

-----------------------------------------------------------------------------
(* Node types *)

SeqScan         == <<"S","e","q"," ","S","c","a","n">>
ParallelSeqScan == <<"P","a","r","a","l","l","e","l"," ","S","e","q"," ","S","c","a","n">>
Parallel        == <<"P","a","r","a","l","l","e","l">>
Hash            == <<"H","a","s","h">>
Sort            == <<"S","o","r","t">>
NestedLoop      == <<"N","e","s","t","e","d"," ","L","o","o","p">>
BitmapHeapScan  == <<"B","i","t","m","a","p"," ","H","e","a","p"," ","S","c","a","n">>
IndexScan       == <<"I","n","d","e","x"," ","S","c","a","n">>
ParallelHash    == <<"P","a","r","a","l","l","e","l"," ","H","a","s","h">>

NodeTypes == {SeqScan, ParallelSeqScan, Hash, Sort, NestedLoop,
              BitmapHeapScan, IndexScan, ParallelHash}


-----------------------------------------------------------------------------
(* extract_metrics: src/info_about_query.py *)

\* thresholds of the node-level advice
FullScanRows   == 100000
WorkMemBytes   == 10 * 1024 * 1024
NestedLoopRows == 50000
HighCost       == 100000 * 100
MiB            == 1024 * 1024

\* cpu_cost = rows * cpu_tuple_cost, with the default cpu_tuple_cost = 0.01
CpuCost(rows) == rows

\* A plausible slip: the difference taken as it is
IoCostUnclamped(cost, cpu_cost) == cost - cpu_cost

\* io_cost = max(cost - cpu_cost, 0)
IoCost(cost, cpu_cost) == Max(cost - cpu_cost, 0)

\* A plausible slip: the estimated usage suggested, not twice it
SuggestedWorkMemUndoubled(memory_bytes) == memory_bytes \div MiB

\* int(mb * 2), mb = memory_bytes / (1024 * 1024): the suggested work_mem
SuggestedWorkMem(memory_bytes) == (2 * memory_bytes) \div MiB

\* x / d rounded to the nearest 1/scale, in units of 1/scale (x >= 0):
\* round(x / d, 2) with scale 100, the format .1f with scale 10
RoundScaled(x, d, scale) ==
    (x \div d) * scale + (2 * scale * (x % d) + d) \div (2 * d)

\* The messages, by what they say and the values interpolated into them
MsgFullScan(rows)     == [advice |-> "add index or WHERE", rows |-> rows]
MsgParallel           == [advice |-> "raise max_parallel_workers_per_gather"]
MsgWorkMem(nt, bytes) == [advice |-> "raise work_mem", node |-> nt,
                          mb10 |-> RoundScaled(bytes, MiB, 10),
                          work_mem |-> SuggestedWorkMem(bytes)]
MsgNestedLoop         == [advice |-> "use Hash Join or add index"]
MsgHighCost(cost)     == [advice |-> "partition the table", cost |-> cost]

\* A plausible slip: the nested-loop advice tested against the scan threshold
NodeRecommendationsWrongThreshold(node_type, rows, cost, memory_bytes) ==
    LET r1 == IF EndsWith(node_type, SeqScan) /\ rows > FullScanRows
              THEN <<MsgFullScan(rows)>> ELSE <<>>
        r2 == IF IsSubstring(Parallel, node_type)
              THEN Append(r1, MsgParallel) ELSE r1
        r3 == IF node_type \in {Hash, Sort} /\ memory_bytes > WorkMemBytes
              THEN Append(r2, MsgWorkMem(node_type, memory_bytes)) ELSE r2
        r4 == IF node_type = NestedLoop /\ rows > FullScanRows
              THEN Append(r3, MsgNestedLoop) ELSE r3
        r5 == IF cost > HighCost /\ node_type \in {SeqScan, BitmapHeapScan}
              THEN Append(r4, MsgHighCost(cost)) ELSE r4
    IN  r5

\* The list recommendations after the five ifs, each appending at its end
NodeRecommendations(node_type, rows, cost, memory_bytes) ==
    LET r1 == IF EndsWith(node_type, SeqScan) /\ rows > FullScanRows
              THEN <<MsgFullScan(rows)>> ELSE <<>>
        r2 == IF IsSubstring(Parallel, node_type)
              THEN Append(r1, MsgParallel) ELSE r1
        r3 == IF node_type \in {Hash, Sort} /\ memory_bytes > WorkMemBytes
              THEN Append(r2, MsgWorkMem(node_type, memory_bytes)) ELSE r2
        r4 == IF node_type = NestedLoop /\ rows > NestedLoopRows
              THEN Append(r3, MsgNestedLoop) ELSE r3
        r5 == IF cost > HighCost /\ node_type \in {SeqScan, BitmapHeapScan}
              THEN Append(r4, MsgHighCost(cost)) ELSE r4
    IN  r5

\* A plausible slip: the children taken last first
ChildPlansReversed(p) ==
    LET plans == Get(p, "Plans", <<>>)
    IN  [i \in 1..Len(plans) |-> plans[Len(plans) + 1 - i]]

\* plan.get("Plans", []): the children the comprehension iterates, in order
ChildPlans(p) == Get(p, "Plans", <<>>)

\* extract_metrics(plan): the annotated node, or the exception that leaves it.
\* node_type is None when the key is missing, and None has no endswith.
RECURSIVE extract_metrics(_)
extract_metrics(p) ==
    LET node_type    == Get(p, "Node Type", None)
        cost         == Get(p, "Total Cost", 0)
        rows         == Get(p, "Plan Rows", 0)
        width        == Get(p, "Plan Width", 0)
        startup_cost == Get(p, "Startup Cost", 0)
        cpu_cost     == CpuCost(rows)
        io_cost      == IoCost(cost, cpu_cost)
        memory_bytes == rows * width
        runtime_ms   == cost
    IN  IF node_type = None THEN Raised("AttributeError")
        ELSE
        LET children == [i \in 1..Len(ChildPlans(p)) |->
                            extract_metrics(ChildPlans(p)[i])]
        IN  IF \E i \in 1..Len(children) : IsRaised(children[i])
            THEN Raised("AttributeError")
            ELSE [node_type          |-> node_type,
                  cost               |-> cost,
                  cpu_ms             |-> cpu_cost,
                  io_ms              |-> io_cost,
                  total_ms           |-> runtime_ms,
                  rows               |-> rows,
                  width              |-> width,
                  startup_cost       |-> startup_cost,
                  memory_estimate_mb |-> RoundScaled(memory_bytes, MiB, 100),
                  recommendations    |->
                      NodeRecommendations(node_type, rows, cost, memory_bytes),
                  children           |-> children]

-----------------------------------------------------------------------------
(* The plans extract_metrics is applied to *)

\* largest number of nodes of a plan tree
MaxPlanNodes == 3

\* A dict from a function of options: <<>> leaves the key out, <<v>> sets it
MkDict(opts) == [k \in {x \in DOMAIN opts : opts[x] # <<>>} |-> opts[k][1]]

Optional(S) == {<<>>} \cup {<<v>> : v \in S}

RowsValues  == {50000, 100000, 150000, 1048576, 2000000}
WidthValues == {5, 10}
CostValues  == {50000, 10000000, 10000001}

\* Every single node: each field present with one of its values, or missing
PlanNodes ==
    { MkDict([k \in {"Node Type", "Total Cost", "Plan Rows", "Plan Width",
                     "Startup Cost"} |->
                CASE k = "Node Type"    -> nt
                  [] k = "Total Cost"   -> c
                  [] k = "Plan Rows"    -> r
                  [] k = "Plan Width"   -> w
                  [] k = "Startup Cost" -> s]) :
        nt \in Optional(NodeTypes), c \in Optional(CostValues),
        r \in Optional(RowsValues), w \in Optional(WidthValues),
        s \in Optional({2500}) }

\* The nodes the trees of several nodes are built from
TreeNodes ==
    { ("Node Type" :> SeqScan) @@ ("Plan Rows" :> 150000) @@ ("Plan Width" :> 10)
         @@ ("Total Cost" :> 10000001) @@ ("Startup Cost" :> 0),
      ("Node Type" :> Hash) @@ ("Plan Rows" :> 2000000) @@ ("Plan Width" :> 10)
         @@ ("Total Cost" :> 50000),
      ("Node Type" :> NestedLoop) @@ ("Plan Rows" :> 50000),
      ("Plan Rows" :> 100000) @@ ("Total Cost" :> 50000) }

\* A node with its children: a leaf has no "Plans" key, as in EXPLAIN's output
WithPlans(node, plans) ==
    IF plans = <<>> THEN node ELSE node @@ ("Plans" :> plans)

\* The sequences of trees of n nodes in all, and the trees of n nodes
RECURSIVE Forests(_, _)
Forests(nodes, n) ==
    IF n = 0 THEN {<<>>}
    ELSE UNION { { <<WithPlans(node, sub)>> \o rest :
                     node \in nodes, sub \in Forests(nodes, k - 1),
                     rest \in Forests(nodes, n - k) } : k \in 1..n }

Trees(nodes, n) ==
    { WithPlans(node, sub) : node \in nodes, sub \in Forests(nodes, n - 1) }

MetricsInputs ==
    PlanNodes \cup UNION { Trees(TreeNodes, n) : n \in 2..MaxPlanNodes }

-----------------------------------------------------------------------------
(* extract_columns_from_filter: src/rec_query.py *)

Lower  == {"a","b","c","d","e","f","g","h","i","j","k","l","m","n","o","p","q",
           "r","s","t","u","v","w","x","y","z"}
Upper  == {"A","B","C","D","E","F","G","H","I","J","K","L","M","N","O","P","Q",
           "R","S","T","U","V","W","X","Y","Z"}
Digits == {"0","1","2","3","4","5","6","7","8","9"}

\* [a-zA-Z_], [a-zA-Z0-9_] (also \w, which decides \b), and \s
IdentStart == Lower \cup Upper \cup {"_"}
WordChars  == IdentStart \cup Digits
Whitespace == {" "}

\* (=|>|<|>=|<=|LIKE|ILIKE): the alternatives in the order they are tried
Operators == << <<"=">>, <<">">>, <<"<">>, <<">","=">>, <<"<","=">>,
                <<"L","I","K","E">>, <<"I","L","I","K","E">> >>

\* t occurs in s at position i
StartsAt(s, i, t) ==
    /\ i + Len(t) - 1 <= Len(s)
    /\ \A k \in 1..Len(t) : s[i + k - 1] = t[k]

\* Length of the first alternative that matches at i, 0 when none does
OpLenAt(s, i) ==
    LET m == {j \in 1..Len(Operators) : StartsAt(s, i, Operators[j])}
    IN  IF m = {} THEN 0
        ELSE Len(Operators[CHOOSE j \in m : \A k \in m : j <= k])

\* Number of characters of class C from position p on
RunOf(s, p, C) ==
    LET ks == {k \in 0..(Len(s) - p + 1) : \A j \in p..(p + k - 1) : s[j] \in C}
    IN  CHOOSE k \in ks : \A l \in ks : l <= k

\* The match of the pattern that starts at p, if any: \b, then the longest
\* identifier after which \s* and an operator follow (the identifier gives
\* characters back until they do)
MatchAt(s, p) ==
    IF ~(s[p] \in IdentStart /\ (p = 1 \/ s[p - 1] \notin WordChars))
    THEN [found |-> FALSE]
    ELSE LET AfterSpace(k) == p + k + RunOf(s, p + k, Whitespace)
             ks == {k \in 1..RunOf(s, p, WordChars) :
                        OpLenAt(s, AfterSpace(k)) > 0}
         IN  IF ks = {} THEN [found |-> FALSE]
             ELSE LET k == CHOOSE k \in ks : \A l \in ks : l <= k
                  IN  [found |-> TRUE,
                       name  |-> SubSeq(s, p, p + k - 1),
                       next  |-> AfterSpace(k) + OpLenAt(s, AfterSpace(k))]

\* re.findall: the matches from left to right, none overlapping another;
\* the first group of each
RECURSIVE FindAll(_, _)
FindAll(s, pos) ==
    IF pos > Len(s) THEN <<>>
    ELSE LET m == MatchAt(s, pos)
         IN  IF m.found THEN <<m.name>> \o FindAll(s, m.next)
             ELSE FindAll(s, pos + 1)

\* Order of one-char strings and the lexicographic order of str
Alphabet ==
    <<"0","1","2","3","4","5","6","7","8","9",
      "A","B","C","D","E","F","G","H","I","J","K","L","M","N","O","P","Q","R",
      "S","T","U","V","W","X","Y","Z","_",
      "a","b","c","d","e","f","g","h","i","j","k","l","m","n","o","p","q","r",
      "s","t","u","v","w","x","y","z">>
CharRank(c) == CHOOSE i \in 1..Len(Alphabet) : Alphabet[i] = c

RECURSIVE LexLess(_, _)
LexLess(x, y) ==
    IF y = <<>> THEN FALSE
    ELSE IF x = <<>> THEN TRUE
    ELSE IF x[1] # y[1] THEN CharRank(x[1]) < CharRank(y[1])
    ELSE LexLess(Tail(x), Tail(y))

\* The str hash seeds of a process, by the iteration order they give a set of
\* str: ascending or descending.  For the sets of one and two names that the
\* filters below yield these are all the orders a seed can give.
HashSeeds == {"ascending", "descending"}

\* list(S) for a set S of str in a process with the given hash seed
RECURSIVE ListOfSet(_, _)
ListOfSet(S, seed) ==
    IF S = {} THEN <<>>
    ELSE LET first == CHOOSE x \in S : \A y \in S :
                          \/ y = x
                          \/ IF seed = "ascending" THEN LexLess(x, y)
                                                   ELSE LexLess(y, x)
         IN  <<first>> \o ListOfSet(S \ {first}, seed)

\* Python truthiness of a str, a list or None
Truthy(v) == v # None /\ v # <<>>

\* The predicates of the plans below (filters and join filters), and the
\* matches in each, computed once
FilterAB   == <<"a"," ","="," ","5"," ","A","N","D"," ","b"," ","="," ","3">>
FilterAQty == <<"(","(","a"," ","="," ","5",")"," ","A","N","D"," ","(","q",
                "t","y"," ",">"," ","3",")",")">>
FilterLike == <<"(","c"," ","~","~"," ","'","x","%","'",":",":","t","e","x",
                "t",")">>
JoinFilter == <<"(","t",".","a"," ","="," ","u",".","c",")">>
Predicates == {FilterAB, FilterAQty, FilterLike, JoinFilter}
Matches    == [f \in Predicates |-> FindAll(f, 1)]

\* A plausible slip: only the first match kept
extract_first_column_from_filter(filter_cond, seed) ==
    IF ~Truthy(filter_cond) THEN <<>>
    ELSE LET cols == Matches[filter_cond]
         IN  IF cols = <<>> THEN <<>> ELSE <<cols[1]>>

\* extract_columns_from_filter(filter_cond): the distinct first groups of the
\* matches, in the order the process iterates the set
extract_columns_from_filter(filter_cond, seed) ==
    IF ~Truthy(filter_cond) THEN <<>>
    ELSE LET cols == Matches[filter_cond]
         IN  ListOfSet({cols[i] : i \in 1..Len(cols)}, seed)

-----------------------------------------------------------------------------
(* The catalog: what get_existing_indexes and get_unused_indexes select *)

TableT == <<"t">>
TableU == <<"u">>
ColA   == <<"a">>
ColB   == <<"b">>
ColC   == <<"c">>
ColQty == <<"q","t","y">>

\* The indexes that may exist: name, table, columns and what
\* pg_index / pg_stat_user_indexes / pg_relation_size say of each
IndexUniverse ==
    { [indexname |-> <<"i","d","x","_","t","_","a">>, tablename |-> TableT,
       columns |-> <<ColA>>, indisunique |-> FALSE, idx_scan |-> 0,
       size_mb |-> 8],
      [indexname |-> <<"i","d","x","_","t","_","a","_","q","t","y">>,
       tablename |-> TableT, columns |-> <<ColA, ColQty>>,
       indisunique |-> FALSE, idx_scan |-> 0, size_mb |-> 64],
      [indexname |-> <<"u","_","p","k","e","y">>, tablename |-> TableU,
       columns |-> <<ColC>>, indisunique |-> TRUE, idx_scan |-> 0,
       size_mb |-> 8] }

\* pg_indexes.indexdef: the CREATE INDEX statement PostgreSQL prints
IndexDef(i) ==
    <<"C","R","E","A","T","E"," ">>
    \o (IF i.indisunique THEN <<"U","N","I","Q","U","E"," ">> ELSE <<>>)
    \o <<"I","N","D","E","X"," ">> \o i.indexname
    \o <<" ","O","N"," ","p","u","b","l","i","c",".">> \o i.tablename
    \o <<" ","U","S","I","N","G"," ","b","t","r","e","e"," ","(">>
    \o Join(<<",", " ">>, i.columns) \o <<")">>

\* The row (indexname, indexdef) of each index, computed once
IndexRow == [i \in IndexUniverse |-> <<i.indexname, IndexDef(i)>>]

\* get_existing_indexes(conn, table): the rows (indexname, indexdef) of the
\* table's indexes; the code only asks whether some row qualifies, so a set
get_existing_indexes(cat, table) ==
    { IndexRow[i] : i \in {j \in cat : j.tablename = table} }

\* default of min_size_mb
MinSizeMb == 1

PublicSchema == <<"p","u","b","l","i","c">>

\* A plausible slip: unique indexes are not excluded from the sweep
get_unused_indexes_with_unique(cat) ==
    LET hit   == {i \in cat : i.idx_scan = 0 /\ i.size_mb > MinSizeMb}
        names == ListOfSet({i.indexname : i \in hit}, "ascending")
    IN  [k \in 1..Len(names) |->
            LET i == CHOOSE j \in hit : j.indexname = names[k]
            IN  <<PublicSchema, i.tablename, i.indexname,
                  <<i.size_mb, "MB">>, i.idx_scan>>]

\* get_unused_indexes(conn): the rows (schemaname, table_name, index_name,
\* index_size, idx_scan) of the indexes never scanned, not unique and larger
\* than min_size_mb; the same catalog gives the rows in the same order
get_unused_indexes(cat) ==
    LET hit   == {i \in cat : /\ i.idx_scan = 0
                              /\ i.indisunique = FALSE
                              /\ i.size_mb > MinSizeMb}
        names == ListOfSet({i.indexname : i \in hit}, "ascending")
    IN  [k \in 1..Len(names) |->
            LET i == CHOOSE j \in hit : j.indexname = names[k]
            IN  <<PublicSchema, i.tablename, i.indexname,
                  <<i.size_mb, "MB">>, i.idx_scan>>]

-----------------------------------------------------------------------------
(* recommend_indexes: src/rec_query.py *)

\* A plausible slip: candidate columns looked for in the index name (the
\* first element of a row) ...
CoveredByName(cols, existing) ==
    \E row \in existing :
        \A k \in 1..Len(cols) : IsSubstring(cols[k], row[1])

\* ... or an index taken to cover when it contains any one candidate column
CoveredByAny(cols, existing) ==
    \E row \in existing :
        \E k \in 1..Len(cols) : IsSubstring(cols[k], row[2])

\* ... or every index required to contain the candidate columns
CoveredByEvery(cols, existing) ==
    \A row \in existing :
        \A k \in 1..Len(cols) : IsSubstring(cols[k], row[2])

\* any(all(col in idxdef for col in cols) for _, idxdef in existing)
Covered(cols, existing) ==
    \E row \in existing :
        \A k \in 1..Len(cols) : IsSubstring(cols[k], row[2])

\* The recommendation of a full scan with a filter (lines 66-72)
CreateIndexRecommendation(relation, filter_cond, cols) ==
    [type     |-> "add_index",
     priority |-> "high",
     message  |-> [about    |-> "Seq Scan with filter",
                   relation |-> relation,
                   filter   |-> filter_cond,
                   idx_name |-> <<"i","d","x","_">> \o relation \o <<"_">>
                                   \o Join(<<"_">>, cols),
                   columns  |-> Join(<<",", " ">>, cols)]]

\* The recommendation of a full scan without a filter (lines 74-78)
PartitioningRecommendation(relation) ==
    [type     |-> "add_index",
     priority |-> "medium",
     message  |-> [about    |-> "Seq Scan without filter",
                   relation |-> relation]]

\* The recommendation of a nested loop (lines 84-88)
JoinRecommendation(join_cond, cols) ==
    [type     |-> "add_index",
     priority |-> "medium",
     message  |-> [about   |-> "Nested Loop with Join Filter",
                   filter  |-> join_cond,
                   columns |-> Join(<<",", " ">>, cols)]]

\* The recommendation of a sort (lines 95-101)
SortRecommendation(relation, sort_key) ==
    [type     |-> "add_index",
     priority |-> "low",
     message  |-> [about    |-> "sort",
                   relation |-> relation,
                   key      |-> Join(<<",", " ">>, sort_key),
                   idx_name |-> <<"i","d","x","_">> \o relation \o <<"_">>
                                   \o Join(<<"_">>, sort_key)]]

\* The recommendation of an unused index (lines 110-116); the row is
\* unpacked as schema, table, idx, scans, size
DropRecommendation(row) ==
    [type     |-> "drop_index",
     priority |-> "low",
     message  |-> [about  |-> "unused index",
                   index  |-> row[3],
                   schema |-> row[1],
                   table  |-> row[2],
                   size   |-> row[5]]]

\* A plausible slip: the partitioning suggestion as the else of the inner
\* test, given whenever no index is advised
ScanAdviceElsePartitioning(node, seen, seed) ==
    LET node_type   == Get(node, "Node Type", <<>>)
        relation    == Get(node, "Relation Name", None)
        filter_cond == Get(node, "Filter", None)
        cols        == extract_columns_from_filter(filter_cond, seed)
    IN  IF ~(node_type = SeqScan /\ Truthy(relation)) THEN <<>>
        ELSE IF Truthy(filter_cond) /\ cols # <<>>
                /\ ~Covered(cols, seen[relation])
        THEN <<CreateIndexRecommendation(relation, filter_cond, cols)>>
        ELSE <<PartitioningRecommendation(relation)>>

\* Lines 60-78: what a Seq Scan node appends
ScanAdvice(node, seen, seed) ==
    LET node_type   == Get(node, "Node Type", <<>>)
        relation    == Get(node, "Relation Name", None)
        filter_cond == Get(node, "Filter", None)
        cols        == extract_columns_from_filter(filter_cond, seed)
    IN  IF ~(node_type = SeqScan /\ Truthy(relation)) THEN <<>>
        ELSE IF Truthy(filter_cond)
        THEN IF cols # <<>> /\ ~Covered(cols, seen[relation])
             THEN <<CreateIndexRecommendation(relation, filter_cond, cols)>>
             ELSE <<>>
        ELSE <<PartitioningRecommendation(relation)>>

\* Lines 81-88: what a Nested Loop node appends
JoinAdvice(node, seed) ==
    LET node_type == Get(node, "Node Type", <<>>)
        join_cond == Get(node, "Join Filter", None)
        cols      == extract_columns_from_filter(join_cond, seed)
    IN  IF node_type = NestedLoop /\ Truthy(join_cond) /\ cols # <<>>
        THEN <<JoinRecommendation(join_cond, cols)>>
        ELSE <<>>

\* Lines 91-101: what a node with a sort key and a relation appends
SortAdvice(node, seen) ==
    LET relation == Get(node, "Relation Name", None)
        sort_key == Get(node, "Sort Key", None)
    IN  IF Truthy(sort_key) /\ Truthy(relation)
           /\ ~\E row \in seen[relation] :
                  IsSubstring(Join(<<",", " ">>, sort_key), row[2])
        THEN <<SortRecommendation(relation, sort_key)>>
        ELSE <<>>

\* What walk(node) appends for the node itself, seen_tables being seen
NodeAdvice(node, seen, seed) ==
    ScanAdvice(node, seen, seed) \o JoinAdvice(node, seed)
        \o SortAdvice(node, seen)

\* A plausible slip: the indexes fetched at every node that names a table
NeedsFetchAlways(relation, seen) == Truthy(relation)

\* Line 56: relation and relation not in seen_tables
NeedsFetch(relation, seen) ==
    Truthy(relation) /\ relation \notin DOMAIN seen

\* A plausible slip: the drop recommendations put in front of the others
PrependDrops(recs, unused) ==
    [k \in 1..Len(unused) |-> DropRecommendation(unused[k])] \o recs

\* Lines 110-116: one drop recommendation appended per row of unused
AppendDrops(recs, unused) ==
    recs \o [k \in 1..Len(unused) |-> DropRecommendation(unused[k])]

\* The node of the plan at a path: path[k] is the index in "Plans" taken at
\* depth k
RECURSIVE NodeAt(_, _)
NodeAt(p, path) ==
    IF path = <<>> THEN p ELSE NodeAt(p["Plans"][Head(path)], Tail(path))

\* A plausible slip: the children queued behind the calls already pending
\* (the plan walked level by level)
PushChildrenBehind(node, path, rest) ==
    rest \o [i \in 1..Len(Get(node, "Plans", <<>>)) |-> Append(path, i)]

\* walk(child) for the children of the node, the first child innermost;
\* a pending call is the path of its node
PushChildren(node, path, rest) ==
    [i \in 1..Len(Get(node, "Plans", <<>>)) |-> Append(path, i)] \o rest

\* What a call returned
Returned(v) == [returned |-> v]

-----------------------------------------------------------------------------
(* SpecMetrics: analyze_query applies extract_metrics to the plan *)

Idle == <<"idle">>

AdvisorIdle ==
    /\ catalog = Idle /\ query = Idle /\ pc = "idle"
    /\ hash_seed = Idle /\ stack = <<>> /\ seen_tables = <<>>
    /\ recommendations = <<>> /\ fetches = <<>> /\ visits = <<>>
    /\ changed = FALSE /\ outcome = Pending
    /\ previous = Pending

StatsIdle ==
    /\ statements = {} /\ feed = <<>> /\ calls_feed = <<>>
    /\ spc = "idle" /\ feed_pos = 0 /\ report = Idle /\ plan_fetches = <<>>

MetricsIdle == plan = Idle /\ annotated = Pending

MetricsInit ==
    /\ plan \in MetricsInputs
    /\ annotated = Pending
    /\ AdvisorIdle /\ StatsIdle

\* analyze_query, after the plan was fetched: return extract_metrics(plan)
AnalyzeQuery ==
    /\ annotated = Pending
    /\ annotated' = extract_metrics(plan)
    /\ UNCHANGED <<plan, advisorVars, statsVars>>

MetricsNext == AnalyzeQuery

SpecMetrics == MetricsInit /\ [][MetricsNext]_vars

-----------------------------------------------------------------------------
(* Spec: one call of recommend_indexes, beside a catalog that other *)
(* sessions change                                                  *)

ScanAB   == ("Node Type" :> SeqScan) @@ ("Relation Name" :> TableT)
               @@ ("Filter" :> FilterAB)
ScanAQty == ("Node Type" :> SeqScan) @@ ("Relation Name" :> TableT)
               @@ ("Filter" :> FilterAQty)
ScanAll  == ("Node Type" :> SeqScan) @@ ("Relation Name" :> TableT)
ScanLike == ("Node Type" :> SeqScan) @@ ("Relation Name" :> TableU)
               @@ ("Filter" :> FilterLike)
JoinNode == ("Node Type" :> NestedLoop) @@ ("Join Filter" :> JoinFilter)
SortNode == ("Node Type" :> IndexScan) @@ ("Relation Name" :> TableT)
               @@ ("Sort Key" :> <<ColA, ColQty>>)
HashNode == ("Node Type" :> Hash)

\* The single nodes, and the nodes the plans of several nodes are built from
AdvisorNodes     == {ScanAB, ScanAQty, ScanAll, ScanLike, JoinNode, SortNode,
                     HashNode}
AdvisorTreeNodes == {ScanAB, ScanAQty}

AdvisorInputs ==
    AdvisorNodes \cup UNION { Trees(AdvisorTreeNodes, n) : n \in 2..MaxPlanNodes }

Init ==
    /\ catalog \in SUBSET IndexUniverse
    /\ query \in AdvisorInputs
    /\ pc = "idle" /\ hash_seed = Idle
    /\ stack = <<>> /\ seen_tables = <<>> /\ recommendations = <<>>
    /\ fetches = <<>> /\ visits = <<>>
    /\ changed = FALSE /\ outcome = Pending
    /\ previous = Pending
    /\ MetricsIdle /\ StatsIdle

\* A plausible slip: the memo kept at module level, outliving the call
KeptMemo(seen) == seen

\* seen_tables = {} at the start of every call (line 47)
FreshMemo(seen) == <<>>

\* recommend_indexes is called, in a new process (cli.py runs it once), and
\* EXPLAIN yields the plan (a query EXPLAIN rejects gets no run)
StartRun ==
    /\ pc = "idle"
    /\ hash_seed' \in HashSeeds
    /\ pc' = "walk"
    /\ stack' = << <<>> >>
    /\ seen_tables' = FreshMemo(seen_tables)
    /\ UNCHANGED <<catalog, query, recommendations, fetches,
                   visits, changed, outcome, previous, metricsVars, statsVars>>

\* walk(node) up to its loop over the children: the fetch of the table's
\* indexes if it is due, then the three pieces of advice
Walk ==
    /\ pc = "walk" /\ stack # <<>>
    /\ LET path     == Head(stack)
           node     == NodeAt(query, path)
           relation == Get(node, "Relation Name", None)
           fetch    == NeedsFetch(relation, seen_tables)
           rows     == get_existing_indexes(catalog, relation)
           seen     == IF fetch
                       THEN [r \in DOMAIN seen_tables \cup {relation} |->
                               IF r = relation THEN rows ELSE seen_tables[r]]
                       ELSE seen_tables
           advice   == NodeAdvice(node, seen, hash_seed)
       IN  /\ seen_tables' = seen
           /\ recommendations' = recommendations \o advice
           /\ fetches' = IF fetch
                         THEN Append(fetches, [fn |-> "get_existing_indexes",
                                               table |-> relation,
                                               rows |-> rows])
                         ELSE fetches
           /\ visits' = Append(visits,
                           [path     |-> path,
                            existing |-> IF Truthy(relation) THEN seen[relation]
                                         ELSE {},
                            stale    |-> /\ Truthy(relation)
                                         /\ seen[relation] # rows,
                            advice   |-> advice])
           /\ stack' = PushChildren(node, path, Tail(stack))
    /\ UNCHANGED <<catalog, query, pc, hash_seed, changed, outcome, previous,
                   metricsVars, statsVars>>

\* ... or the fetch fails and the exception leaves recommend_indexes
WalkFetchFails ==
    /\ pc = "walk" /\ stack # <<>>
    /\ NeedsFetch(Get(NodeAt(query, Head(stack)), "Relation Name", None),
                  seen_tables)
    /\ pc' = "raised"
    /\ outcome' = Raised("get_existing_indexes")
    /\ UNCHANGED <<catalog, query, hash_seed, stack, seen_tables,
                   recommendations, fetches, visits, changed, previous,
                   metricsVars, statsVars>>

\* After walk(plan): the unused indexes, a recommendation for each, return
Sweep ==
    /\ pc = "walk" /\ stack = <<>>
    /\ LET unused == get_unused_indexes(catalog)
           recs   == AppendDrops(recommendations, unused)
       IN  /\ recommendations' = recs
           /\ fetches' = Append(fetches, [fn |-> "get_unused_indexes",
                                          table |-> None, rows |-> unused])
           /\ outcome' = Returned(recs)
    /\ pc' = "returned"
    /\ UNCHANGED <<catalog, query, hash_seed, stack, seen_tables, visits,
                   changed, previous, metricsVars, statsVars>>

\* ... or the sweep fails and the exception leaves recommend_indexes
SweepFails ==
    /\ pc = "walk" /\ stack = <<>>
    /\ pc' = "raised"
    /\ outcome' = Raised("get_unused_indexes")
    /\ UNCHANGED <<catalog, query, hash_seed, stack, seen_tables,
                   recommendations, fetches, visits, changed, previous,
                   metricsVars, statsVars>>

\* Another session creates or drops an index (CREATE INDEX, DROP INDEX: not
\* the index of a primary key, which goes with its constraint) while the
\* call is walking the plan
CatalogChange ==
    /\ pc = "walk"
    /\ \E i \in {j \in IndexUniverse : ~j.indisunique} :
          catalog' = IF i \in catalog THEN catalog \ {i} ELSE catalog \cup {i}
    /\ changed' = TRUE
    /\ UNCHANGED <<query, pc, hash_seed, stack, seen_tables, recommendations,
                   fetches, visits, outcome, previous,
                   metricsVars, statsVars>>

Next ==
    \/ StartRun \/ Walk \/ WalkFetchFails
    \/ Sweep \/ SweepFails \/ CatalogChange

Spec == Init /\ [][Next]_vars

-----------------------------------------------------------------------------
(* SpecRerun: recommend_indexes run a second time on the same query *)

\* The query is analysed once more, in a new process
Rerun ==
    /\ pc \in {"returned", "raised"} /\ previous = Pending
    /\ hash_seed' \in HashSeeds
    /\ pc' = "walk"
    /\ stack' = << <<>> >>
    /\ seen_tables' = FreshMemo(seen_tables) /\ recommendations' = <<>>
    /\ fetches' = <<>> /\ visits' = <<>>
    /\ previous' = outcome /\ outcome' = Pending
    /\ UNCHANGED <<catalog, query, changed, metricsVars, statsVars>>

\* Another session creates or drops an index between the two calls
CatalogChangeBetween ==
    /\ pc \in {"returned", "raised"} /\ previous = Pending
    /\ \E i \in {j \in IndexUniverse : ~j.indisunique} :
          catalog' = IF i \in catalog THEN catalog \ {i} ELSE catalog \cup {i}
    /\ changed' = TRUE
    /\ UNCHANGED <<query, pc, hash_seed, stack, seen_tables, recommendations,
                   fetches, visits, outcome, previous, metricsVars, statsVars>>

\* The catalog is held still while a call runs: the two calls are compared
\* on what they return from the catalog states they start in
NextRerun ==
    \/ StartRun \/ Walk \/ WalkFetchFails
    \/ Sweep \/ SweepFails
    \/ Rerun \/ CatalogChangeBetween

SpecRerun == Init /\ [][NextRerun]_vars

-----------------------------------------------------------------------------
(* SpecWalk: one call of recommend_indexes on plans of up to four nodes, *)
(* each with advice of two kinds                                        *)

\* A full scan and a nested loop that also carry a sort key and a relation
ScanSorted == ("Node Type" :> SeqScan) @@ ("Relation Name" :> TableT)
                 @@ ("Filter" :> FilterAQty)
                 @@ ("Sort Key" :> <<ColA, ColQty>>)
JoinSorted == ("Node Type" :> NestedLoop) @@ ("Relation Name" :> TableU)
                 @@ ("Join Filter" :> JoinFilter)
                 @@ ("Sort Key" :> <<ColC>>)

WalkTreeNodes == {ScanSorted, JoinSorted}

WalkInputs ==
    UNION { Trees(WalkTreeNodes, n) : n \in 1..(MaxPlanNodes + 1) }

WalkInit ==
    /\ catalog \in SUBSET IndexUniverse
    /\ query \in WalkInputs
    /\ pc = "idle" /\ hash_seed = Idle
    /\ stack = <<>> /\ seen_tables = <<>> /\ recommendations = <<>>
    /\ fetches = <<>> /\ visits = <<>>
    /\ changed = FALSE /\ outcome = Pending
    /\ previous = Pending
    /\ MetricsIdle /\ StatsIdle

\* Another session creates or drops one index while the call is walking
CatalogChangeOnce == ~changed /\ CatalogChange

NextWalk ==
    \/ StartRun \/ Walk \/ WalkFetchFails
    \/ Sweep \/ SweepFails \/ CatalogChangeOnce

SpecWalk == WalkInit /\ [][NextWalk]_vars

-----------------------------------------------------------------------------
(* SpecStats: full_pg_analysis over the rows of pg_stat_statements.  Times *)
(* are in microseconds (thousandths of the milliseconds the view reports). *)

\* top_n (5 by default), kept small here
TopN == 2

\* calls_threshold, max_mean_time_ms, max_rows and the literal of line 188
CallsThreshold == 1000
MaxMeanTime    == 10 * 1000
MaxRows        == 10
HeavyMeanTime  == 50 * 1000

\* s.strip()
RECURSIVE Strip(_)
Strip(s) ==
    IF s = <<>> THEN s
    ELSE IF Head(s) \in Whitespace THEN Strip(Tail(s))
    ELSE IF s[Len(s)] \in Whitespace THEN Strip(SubSeq(s, 1, Len(s) - 1))
    ELSE s

\* round(ms, 2) and the format :.1f, as hundredths and tenths of a ms
Round2(time) == RoundScaled(time, 1000, 100)
Format1(time) == RoundScaled(time, 1000, 10)

\* Statements of pg_stat_statements (none mentions pg_stat_statements)
StatRow(q, calls, total_time, mean_time, rows_count, blks_read, blks_hit) ==
    [query |-> q, calls |-> calls, total_time |-> total_time,
     mean_time |-> mean_time, rows |-> rows_count,
     blks_read |-> blks_read, blks_hit |-> blks_hit]

StatementUniverse ==
    { StatRow(<<" ","q","1"," ">>, 5000, 10000000,    2000,  1,  0, 10),
      StatRow(<<"q","2">>,         5000, 1000000000, 200000,  1, 11, 10),
      StatRow(<<"q","3">>,         1000, 50004000,    50004, 10, 10, 10),
      StatRow(<<"q","4","\n">>,    1001, 10005996,     9996, 10,  0,  0),
      StatRow(<<"q","5">>,         1001, 50050000,    50000, 11, 10,  0),
      StatRow(<<"q","6">>,         2000, 20000000,    10000,  0,  5,  5) }

\* SELECT ... ORDER BY key DESC LIMIT n: the row lists PostgreSQL may
\* return (rows of equal key come in any order)
RECURSIVE OrderByDescLimit(_, _, _)
OrderByDescLimit(S, key, n) ==
    IF n = 0 \/ S = {} THEN {<<>>}
    ELSE UNION { { <<r>> \o rest :
                     rest \in OrderByDescLimit(S \ {r}, key, n - 1) } :
                 r \in {x \in S : \A y \in S : y[key] <= x[key]} }

\* What EXPLAIN (FORMAT JSON) may give for a statement: an error (invalid
\* statement, permission denied), or a plan
Explained ==
    {Raised("psycopg2.Error")} \cup {Returned(p) : p \in TreeNodes}

\* analyze_query(conn, query), given what cur.execute gave
analyze_query(explained) ==
    IF IsRaised(explained) THEN explained
    ELSE extract_metrics(explained.returned)

\* try: plan = analyze_query(...) except Exception as e: plan = {"error": ..}
PlanOrError(result) ==
    IF IsRaised(result) THEN [error |-> result.raised] ELSE result

MsgHotQuery(calls, mean_time) ==
    [advice |-> "frequent and heavy", calls |-> calls,
     mean_ms10 |-> Format1(mean_time)]
MsgLowHitRate(blks_hit, blks_read) ==
    [advice |-> "low hit-rate", blks_hit |-> blks_hit, blks_read |-> blks_read]
MsgNPlusOne(calls, mean_time, rows_count) ==
    [advice |-> "N+1 suspected", calls |-> calls,
     mean_ms10 |-> Format1(mean_time), rows |-> rows_count]

\* A plausible slip: a mean time of exactly 50 ms counted as heavy
StatsRecommendationsAtThreshold(r) ==
    (IF r.calls > CallsThreshold /\ r.mean_time >= HeavyMeanTime
        THEN <<MsgHotQuery(r.calls, r.mean_time)>> ELSE <<>>)
    \o (IF r.blks_read > r.blks_hit
        THEN <<MsgLowHitRate(r.blks_hit, r.blks_read)>> ELSE <<>>)

\* Lines 187-191: the statistics heuristics of a row
StatsRecommendations(r) ==
    (IF r.calls > CallsThreshold /\ r.mean_time > HeavyMeanTime
        THEN <<MsgHotQuery(r.calls, r.mean_time)>> ELSE <<>>)
    \o (IF r.blks_read > r.blks_hit
        THEN <<MsgLowHitRate(r.blks_hit, r.blks_read)>> ELSE <<>>)

\* Lines 193-203: the entry of a row
DetailedEntry(r, analysed) ==
    [query              |-> Strip(r.query),
     calls              |-> r.calls,
     total_exec_time_ms |-> Round2(r.total_time),
     mean_exec_time_ms  |-> Round2(r.mean_time),
     rows               |-> r.rows,
     blks_read          |-> r.blks_read,
     blks_hit           |-> r.blks_hit,
     recommendations    |-> StatsRecommendations(r),
     plan               |-> analysed]

\* A plausible slip: no handler, the query whose plan fetch failed is skipped
AppendDetailedUnlessFailed(entries, r, result) ==
    IF IsRaised(result) THEN entries
    ELSE Append(entries, DetailedEntry(r, result))

\* Lines 182-203: one turn of the loop over the total-time feed
AppendDetailed(entries, r, result) ==
    Append(entries, DetailedEntry(r, PlanOrError(result)))

\* A plausible slip: the mean time compared with <=
IsNPlusOneInclusive(r) ==
    /\ r.calls > CallsThreshold
    /\ r.mean_time <= MaxMeanTime
    /\ r.rows <= MaxRows

\* Line 218
IsNPlusOne(r) ==
    /\ r.calls > CallsThreshold
    /\ r.mean_time < MaxMeanTime
    /\ r.rows <= MaxRows

\* Lines 219-228: the entry of a suspect
SuspectEntry(r) ==
    [query             |-> Strip(r.query),
     calls             |-> r.calls,
     mean_exec_time_ms |-> Round2(r.mean_time),
     rows_per_call     |-> r.rows,
     recommendation    |-> MsgNPlusOne(r.calls, r.mean_time, r.rows)]

\* Lines 217-228: the loop over the call-count feed
RECURSIVE Suspects(_)
Suspects(rows) ==
    IF rows = <<>> THEN <<>>
    ELSE (IF IsNPlusOne(Head(rows)) THEN <<SuspectEntry(Head(rows))>>
                                    ELSE <<>>) \o Suspects(Tail(rows))

StatsInit ==
    /\ statements \in SUBSET StatementUniverse
    /\ feed = <<>> /\ calls_feed = <<>>
    /\ spc = "idle" /\ feed_pos = 0 /\ report = Idle /\ plan_fetches = <<>>
    /\ MetricsIdle /\ AdvisorIdle

\* Lines 155-179: the empty report, and the total-time feed is fetched
FetchFeed ==
    /\ spc = "idle"
    /\ report' = [detailed_queries |-> <<>>, n_plus_one_suspects |-> <<>>]
    /\ feed' \in OrderByDescLimit(statements, "total_time", TopN)
    /\ feed_pos' = 1
    /\ spc' = "detailed"
    /\ UNCHANGED <<statements, calls_feed, plan_fetches, metricsVars,
                   advisorVars>>

\* Lines 181-203: one row of the feed; its plan is fetched and analysed,
\* or the fetch or the analysis fails
Detailed ==
    /\ spc = "detailed" /\ feed_pos <= Len(feed)
    /\ \E explained \in Explained :
          /\ report' = [report EXCEPT !.detailed_queries =
                           AppendDetailed(@, feed[feed_pos],
                                          analyze_query(explained))]
          /\ plan_fetches' = Append(plan_fetches, explained)
    /\ feed_pos' = feed_pos + 1
    /\ UNCHANGED <<statements, feed, calls_feed, spc, metricsVars,
                   advisorVars>>

\* Lines 206-230: the call-count feed is fetched, its suspects are listed
\* and the report is returned
NPlusOne ==
    /\ spc = "detailed" /\ feed_pos > Len(feed)
    /\ calls_feed' \in OrderByDescLimit(statements, "calls", TopN * 2)
    /\ report' = [report EXCEPT !.n_plus_one_suspects = Suspects(calls_feed')]
    /\ spc' = "returned"
    /\ UNCHANGED <<statements, feed, feed_pos, plan_fetches, metricsVars,
                   advisorVars>>

\* A query of full_pg_analysis on the statistics views fails (lines 159,
\* 178, 214) and the exception leaves it
StatisticsUnavailable ==
    /\ spc \in {"idle", "detailed"}
    /\ spc = "detailed" => feed_pos > Len(feed)
    /\ report' = Raised("psycopg2.Error")
    /\ spc' = "raised"
    /\ UNCHANGED <<statements, feed, calls_feed, feed_pos, plan_fetches,
                   metricsVars, advisorVars>>

StatsNext == FetchFeed \/ Detailed \/ NPlusOne \/ StatisticsUnavailable

SpecStats == StatsInit /\ [][StatsNext]_vars

-----------------------------------------------------------------------------
(* Properties of extract_metrics *)

Analysed == annotated # Pending

\* Every node of the tree has the key "Node Type"
RECURSIVE AllTyped(_)
AllTyped(p) ==
    /\ "Node Type" \in DOMAIN p
    /\ \A i \in 1..Len(Get(p, "Plans", <<>>)) : AllTyped(p["Plans"][i])

\* a is the annotation of p: same node type and copied fields, as many
\* children as p has entries in "Plans", the i-th annotating the i-th
RECURSIVE SameShape(_, _)
SameShape(p, a) ==
    /\ ~IsRaised(a)
    /\ "Node Type" \in DOMAIN p
    /\ a.node_type = p["Node Type"]
    /\ a.rows = Get(p, "Plan Rows", 0)
    /\ a.cost = Get(p, "Total Cost", 0)
    /\ a.width = Get(p, "Plan Width", 0)
    /\ Len(a.children) = Len(Get(p, "Plans", <<>>))
    /\ \A i \in 1..Len(a.children) : SameShape(p["Plans"][i], a.children[i])

\* Number of nodes of a plan
RECURSIVE Size(_)
RECURSIVE SizeOfAll(_)
Size(p) == 1 + SizeOfAll(Get(p, "Plans", <<>>))
SizeOfAll(plans) ==
    IF plans = <<>> THEN 0 ELSE Size(Head(plans)) + SizeOfAll(Tail(plans))

\* C1: for every plan tree whose nodes carry a node type, extract_metrics
\* returns an annotated tree of the same shape: node for node the same type,
\* the same number of children, the i-th child annotating the i-th child.
C1_SameShape ==
    (Analysed /\ AllTyped(plan)) => SameShape(plan, annotated)

\* C1 witness: a root with two different children, in order, was annotated
C1_Witness ==
    /\ Analysed /\ AllTyped(plan)
    /\ Len(Get(plan, "Plans", <<>>)) = 2
    /\ plan["Plans"][1]["Node Type"] # plan["Plans"][2]["Node Type"]
    /\ annotated.children[1].node_type = plan["Plans"][1]["Node Type"]

\* The derived fields of an annotated node are zero where the input is missing
ZeroDefaults(p, a) ==
    /\ ("Plan Rows" \notin DOMAIN p =>
            a.rows = 0 /\ a.cpu_ms = 0 /\ a.memory_estimate_mb = 0)
    /\ ("Plan Width" \notin DOMAIN p => a.width = 0 /\ a.memory_estimate_mb = 0)
    /\ ("Total Cost" \notin DOMAIN p =>
            a.cost = 0 /\ a.io_ms = 0 /\ a.total_ms = 0)
    /\ ("Startup Cost" \notin DOMAIN p => a.startup_cost = 0)
    /\ ("Plans" \notin DOMAIN p => a.children = <<>>)

\* C2: extract_metrics is total: for any plan node, also one with missing
\* fields (the node type among them), it returns an annotated node whose
\* derived fields are zero for the missing inputs.  The code raises
\* AttributeError when "Node Type" is missing.
C2_Total ==
    Analysed => (~IsRaised(annotated) /\ ZeroDefaults(plan, annotated))

\* The five conditions of the node-level advice and their messages, in order
Heuristics(a) ==
    LET bytes == a.rows * a.width
    IN  << [holds |-> EndsWith(a.node_type, SeqScan) /\ a.rows >= 100001,
            msg   |-> MsgFullScan(a.rows)],
           [holds |-> IsSubstring(Parallel, a.node_type),
            msg   |-> MsgParallel],
           [holds |-> a.node_type \in {Hash, Sort} /\ bytes >= 10485761,
            msg   |-> MsgWorkMem(a.node_type, bytes)],
           [holds |-> a.node_type = NestedLoop /\ a.rows >= 50001,
            msg   |-> MsgNestedLoop],
           [holds |-> a.cost >= 10000001
                      /\ a.node_type \in {SeqScan, BitmapHeapScan},
            msg   |-> MsgHighCost(a.cost)] >>

\* recs holds exactly the messages whose condition holds, once, in order 1..5
ExactlyTheAdvice(a) ==
    LET h    == Heuristics(a)
        recs == a.recommendations
        on   == {i \in 1..5 : h[i].holds}
    IN  /\ Len(recs) = Cardinality(on)
        /\ \A i \in on : \E k \in 1..Len(recs) : recs[k] = h[i].msg
        /\ \A i, j \in on : \A k, l \in 1..Len(recs) :
              (i < j /\ recs[k] = h[i].msg /\ recs[l] = h[j].msg) => k < l

RECURSIVE ExactlyTheAdviceEverywhere(_)
ExactlyTheAdviceEverywhere(a) ==
    /\ ExactlyTheAdvice(a)
    /\ \A i \in 1..Len(a.children) : ExactlyTheAdviceEverywhere(a.children[i])

\* C10: the recommendations of every annotated node are exactly the messages
\* of the node-level heuristics whose condition holds on it, each once, in
\* the order 1..5; a full scan of 150,000 rows meeting no other condition
\* gets exactly the full-scan warning.
C10_ExactlyTheAdvice ==
    (Analysed /\ ~IsRaised(annotated)) =>
        /\ ExactlyTheAdviceEverywhere(annotated)
        /\ (annotated.node_type = SeqScan /\ annotated.rows = 150000
              /\ annotated.cost <= 10000000) =>
                 annotated.recommendations = <<MsgFullScan(150000)>>

\* C10 witness: an analysed full scan of 150,000 rows, no other condition
C10_Witness ==
    /\ Analysed /\ ~IsRaised(annotated)
    /\ annotated.node_type = SeqScan /\ annotated.rows = 150000
    /\ annotated.cost <= 10000000
    /\ Len(annotated.recommendations) = 1

\* The I/O estimate of the node is total cost less rows * cpu_tuple_cost
\* (one hundredth a row) when that is positive, and 0 otherwise
RECURSIVE IoEstimateEverywhere(_)
IoEstimateEverywhere(a) ==
    /\ a.io_ms >= 0
    /\ a.io_ms = (IF a.cost - a.rows > 0 THEN a.cost - a.rows ELSE 0)
    /\ \A i \in 1..Len(a.children) : IoEstimateEverywhere(a.children[i])

\* C11: the I/O-cost estimate of every annotated node is never negative: it
\* is the total cost less rows * cpu_tuple_cost when that difference is
\* positive, and 0 otherwise.
C11_IoNeverNegative ==
    (Analysed /\ ~IsRaised(annotated)) => IoEstimateEverywhere(annotated)

\* C11 witness: an analysed node whose CPU estimate exceeds its total cost
\* (2,000,000 rows at a total cost of 500.00), and whose I/O estimate is 0
C11_Witness ==
    /\ Analysed /\ ~IsRaised(annotated)
    /\ annotated.cost = 50000 /\ annotated.rows = 2000000
    /\ annotated.io_ms = 0

\* The working-memory recommendations among those of an annotated node
WorkMemAdvice(a) ==
    SelectSeq(a.recommendations, LAMBDA r : r.advice = "raise work_mem")

\* On a Hash or Sort node the working-memory recommendation is there exactly
\* when rows * width exceeds 10 MiB, once, and suggests
\* floor(2 * rows * width / 2^20) MB
RECURSIVE WorkMemEverywhere(_)
WorkMemEverywhere(a) ==
    /\ a.node_type \in {Hash, Sort} =>
          LET bytes == a.rows * a.width
          IN  IF bytes > 10 * 1024 * 1024
              THEN /\ Len(WorkMemAdvice(a)) = 1
                   /\ WorkMemAdvice(a)[1].work_mem = (2 * bytes) \div 1048576
              ELSE WorkMemAdvice(a) = <<>>
    /\ \A i \in 1..Len(a.children) : WorkMemEverywhere(a.children[i])

\* C13: on a hash or sort node the working-memory recommendation fires
\* exactly when rows * width exceeds 10 MiB and suggests
\* floor(2 * rows * width / 2^20) MB; for 2,000,000 rows of width 10 it
\* fires and suggests 38MB.
C13_WorkMem ==
    (Analysed /\ ~IsRaised(annotated)) =>
        /\ WorkMemEverywhere(annotated)
        /\ (annotated.node_type \in {Hash, Sort}
              /\ annotated.rows = 2000000 /\ annotated.width = 10) =>
                 /\ Len(WorkMemAdvice(annotated)) = 1
                 /\ WorkMemAdvice(annotated)[1].work_mem = 38

\* C13 witness: a hash node of 2,000,000 rows of width 10 was analysed and
\* got the suggestion of 38MB
C13_Witness ==
    /\ Analysed /\ ~IsRaised(annotated)
    /\ annotated.node_type = Hash
    /\ annotated.rows = 2000000 /\ annotated.width = 10
    /\ WorkMemAdvice(annotated) # <<>>
    /\ WorkMemAdvice(annotated)[1].work_mem = 38

-----------------------------------------------------------------------------
(* Properties of recommend_indexes *)

IsReturned(v) == DOMAIN v = {"returned"}

\* The relation a visited node names (None when it names none)
RelationOf(v) == Get(NodeAt(query, v.path), "Relation Name", None)

\* The positions in fetches of the get_existing_indexes calls for a table
FetchesOf(table) ==
    {k \in 1..Len(fetches) : /\ fetches[k].fn = "get_existing_indexes"
                             /\ fetches[k].table = table}

\* C3: within one run the index set of a table is fetched at most once, and
\* every node that names the table is decided on that same fetched set,
\* whatever other sessions do to the catalog between the visits.
C3_FetchedOnce ==
    /\ \A table \in {TableT, TableU} : Cardinality(FetchesOf(table)) <= 1
    /\ \A j \in 1..Len(visits) :
          Truthy(RelationOf(visits[j])) =>
              \E k \in FetchesOf(RelationOf(visits[j])) :
                  visits[j].existing = fetches[k].rows

\* C3 witness: a second node of the same table was visited after the catalog
\* had changed for that table, and was decided on the set fetched before
C3_Witness ==
    /\ Len(visits) >= 2
    /\ RelationOf(visits[1]) = TableT /\ RelationOf(visits[2]) = TableT
    /\ visits[2].existing = visits[1].existing
    /\ ~visits[1].stale /\ visits[2].stale

\* C4: a failed catalog lookup (get_existing_indexes, get_unused_indexes) is
\* taken as an empty result and never aborts the run.  The code has no
\* handler: the exception leaves recommend_indexes.
C4_LookupFailureNeverAborts == ~IsRaised(outcome)

\* C6: two runs on the same plan and the same catalog state return identical
\* lists.  The order of the candidate columns follows the iteration order of
\* a set of str, which differs from process to process.
C6_Deterministic ==
    (pc = "returned" /\ IsReturned(previous) /\ ~changed) => outcome = previous

\* The visited node is a Seq Scan with a relation and a filter
ScanWithFilter(v) ==
    LET node == NodeAt(query, v.path)
    IN  /\ Get(node, "Node Type", <<>>) = SeqScan
        /\ Truthy(Get(node, "Relation Name", None))
        /\ Truthy(Get(node, "Filter", None))

\* The candidate columns of the filter of a visited node, as a set
CandidatesOf(v) ==
    LET m == Matches[NodeAt(query, v.path)["Filter"]]
    IN  {m[i] : i \in 1..Len(m)}

\* The create-index recommendations among the advice of a visited node
CreateIndexAdvice(v) ==
    SelectSeq(v.advice,
              LAMBDA r : r.type = "add_index" /\ r.priority = "high")

\* The advice of the visited node is one high-priority add-index
\* recommendation naming its table and exactly its candidate columns
NamesTableAndColumns(v) ==
    /\ Len(CreateIndexAdvice(v)) = 1
    /\ LET r == CreateIndexAdvice(v)[1]
       IN  /\ r.message.relation = RelationOf(v)
           /\ \E seed \in HashSeeds :
                 LET cols == ListOfSet(CandidatesOf(v), seed)
                 IN  /\ r.message.columns = Join(<<",", " ">>, cols)
                     /\ r.message.idx_name =
                           <<"i","d","x","_">> \o RelationOf(v) \o <<"_">>
                              \o Join(<<"_">>, cols)

\* The index of the universe a fetched row (indexname, indexdef) describes
IndexOfRow(row) == CHOOSE i \in IndexUniverse : i.indexname = row[1]

\* Some fetched index has every candidate column among its columns
ColumnsCovered(v) ==
    \E row \in v.existing :
        CandidatesOf(v) \subseteq
            {IndexOfRow(row).columns[k] :
                k \in 1..Len(IndexOfRow(row).columns)}

\* The column names each index definition text contains, computed once
NamesInText ==
    [i \in IndexUniverse |->
        {c \in {ColA, ColB, ColC, ColQty} : IsSubstring(c, IndexDef(i))}]

\* Some fetched index definition text contains every candidate column name
TextCovered(v) ==
    \E row \in v.existing :
        CandidatesOf(v) \subseteq NamesInText[IndexOfRow(row)]

IdxTA == CHOOSE i \in IndexUniverse : i.columns = <<ColA>>

\* C7 as stated: a full scan with a filter gets the add-index recommendation
\* naming the table and all candidate columns whenever no existing index
\* covers every candidate column; so with the index on a alone, the filter
\* a = 5 AND b = 3 gets one naming a and b.
C7_AsStated ==
    \A j \in 1..Len(visits) :
        (ScanWithFilter(visits[j]) /\ CandidatesOf(visits[j]) # {}
           /\ ~ColumnsCovered(visits[j])) => NamesTableAndColumns(visits[j])

\* C7 amended: a full scan with a filter that yields candidate columns gets
\* the add-index recommendation naming the table and all candidate columns
\* whenever no fetched index definition text contains every candidate column
\* name; the text of the index on a alone, CREATE INDEX idx_t_a ON public.t
\* USING btree (a), contains b, so a = 5 AND b = 3 gets no recommendation
\* beside that index, and gets the one naming a and b when t has no index.
C7_TextNotCovered ==
    \A j \in 1..Len(visits) :
        LET v == visits[j]
        IN  /\ (ScanWithFilter(v) /\ CandidatesOf(v) # {} /\ ~TextCovered(v))
                  => NamesTableAndColumns(v)
            /\ (NodeAt(query, v.path) = ScanAB) =>
                  /\ CandidatesOf(v) = {ColA, ColB}
                  /\ v.existing = {IndexRow[IdxTA]} => CreateIndexAdvice(v) = <<>>
                  /\ v.existing = {} => NamesTableAndColumns(v)

\* C7 witness: beside the index on a alone, a = 5 AND b = 3 got nothing and
\* (a = 5) AND (qty > 3) got the recommendation naming a and qty
C7_Witness ==
    \E i, j \in 1..Len(visits) :
        /\ NodeAt(query, visits[i].path) = ScanAB
        /\ visits[i].existing = {IndexRow[IdxTA]}
        /\ visits[i].advice = <<>>
        /\ NodeAt(query, visits[j].path) = ScanAQty
        /\ visits[j].existing = {IndexRow[IdxTA]}
        /\ NamesTableAndColumns(visits[j])
        /\ CandidatesOf(visits[j]) = {ColA, ColQty}

\* C8: when some fetched index definition text contains every candidate
\* column of a full scan's filter, the node gets no create-index
\* recommendation.
C8_NoAdviceWhenCovered ==
    \A j \in 1..Len(visits) :
        (ScanWithFilter(visits[j]) /\ TextCovered(visits[j]))
            => CreateIndexAdvice(visits[j]) = <<>>

\* C8 witness: a scan filtered on a and qty, visited when the index on
\* (a, qty) is among several, got no recommendation
C8_Witness ==
    \E j \in 1..Len(visits) :
        /\ NodeAt(query, visits[j].path) = ScanAQty
        /\ Cardinality(visits[j].existing) = 2
        /\ visits[j].advice = <<>>

\* The indexes a catalog holds that were never scanned, are not unique and
\* are larger than 1 MB
UnusedIn(cat) ==
    {i \in cat : i.idx_scan = 0 /\ ~i.indisunique /\ i.size_mb >= 2}

\* The advice of the visits so far, in the order of the visits
RECURSIVE AdviceOf(_)
AdviceOf(vs) ==
    IF vs = <<>> THEN <<>> ELSE AdviceOf(SubSeq(vs, 1, Len(vs) - 1))
                                   \o vs[Len(vs)].advice

\* C9: the returned list is the recommendations of the plan walk followed
\* by exactly one drop_index recommendation for every index the catalog
\* holds unused at the sweep, whatever the plan.  (The call has returned
\* and the catalog is as the sweep read it.)
C9_DropsLast ==
    pc = "returned" =>
        LET recs   == outcome.returned
            unused == UnusedIn(catalog)
            walked == Len(recs) - Cardinality(unused)
        IN  /\ walked >= 0
            /\ SubSeq(recs, 1, walked) = AdviceOf(visits)
            /\ \A k \in 1..walked : recs[k].type # "drop_index"
            /\ \A k \in (walked + 1)..Len(recs) : recs[k].type = "drop_index"
            /\ \A i \in unused :
                  Cardinality({k \in 1..Len(recs) :
                                  /\ recs[k].type = "drop_index"
                                  /\ recs[k].message.index = i.indexname}) = 1

\* C9 witness: a returned list with a plan recommendation and two drops
C9_Witness ==
    /\ pc = "returned"
    /\ Len(outcome.returned) = 3
    /\ outcome.returned[1].type = "add_index"
    /\ outcome.returned[2].type = "drop_index"
    /\ outcome.returned[3].type = "drop_index"

-----------------------------------------------------------------------------
(* Properties of full_pg_analysis *)

\* The statistics heuristics a row of the total-time feed calls for
HeuristicsOf(r) ==
    LET hot == r.calls > 1000 /\ r.mean_time > 50000
        low == r.blks_read > r.blks_hit
    IN  (IF hot THEN <<"frequent and heavy">> ELSE <<>>)
        \o (IF low THEN <<"low hit-rate">> ELSE <<>>)

\* The k-th entry of detailed_queries is the entry of the k-th row of the
\* feed: its query and statistics, its heuristics, and its plan or, when
\* the plan fetch failed, an error marker
EntryOfRow(k) ==
    LET e == report.detailed_queries[k]
        r == feed[k]
    IN  /\ e.query = Strip(r.query)
        /\ e.calls = r.calls /\ e.rows = r.rows
        /\ e.blks_read = r.blks_read /\ e.blks_hit = r.blks_hit
        /\ Len(e.recommendations) = Len(HeuristicsOf(r))
        /\ \A i \in 1..Len(e.recommendations) :
              e.recommendations[i].advice = HeuristicsOf(r)[i]
        /\ IF \/ IsRaised(plan_fetches[k])
              \/ IsRaised(extract_metrics(plan_fetches[k].returned))
           THEN DOMAIN e.plan = {"error"}
           ELSE e.plan = extract_metrics(plan_fetches[k].returned)

\* C5: a failed plan fetch is recorded as an error marker on the entry of
\* its query and the analysis goes on to the next row: detailed_queries
\* holds one entry per row of the feed handled so far, in feed order, each
\* with its statistics heuristics, whichever plan fetches failed; no plan
\* fetch makes full_pg_analysis raise.
C5_OneEntryPerRow ==
    /\ spc \in {"detailed", "returned"} =>
          /\ Len(report.detailed_queries) = feed_pos - 1
          /\ Len(plan_fetches) = feed_pos - 1
          /\ \A k \in 1..Len(report.detailed_queries) : EntryOfRow(k)
          /\ spc = "returned" => Len(report.detailed_queries) = Len(feed)
    /\ spc = "raised" => (feed_pos = 0 \/ feed_pos > Len(feed))

\* C5 witness: a report returned for a feed of two rows, the plan fetch of
\* the first failed and that of the second succeeded
C5_Witness ==
    /\ spc = "returned" /\ Len(feed) = 2
    /\ IsRaised(plan_fetches[1]) /\ ~IsRaised(plan_fetches[2])
    /\ DOMAIN report.detailed_queries[1].plan = {"error"}
    /\ "node_type" \in DOMAIN report.detailed_queries[2].plan
    /\ report.detailed_queries[1].recommendations # <<>>

\* The rows of the call-count feed that are N+1 suspects: more than 1000
\* calls, a mean time below 10 ms and at most 10 rows returned
SuspectRows ==
    {k \in 1..Len(calls_feed) :
        /\ calls_feed[k].calls > 1000
        /\ calls_feed[k].mean_time < 10000
        /\ calls_feed[k].rows <= 10}

\* C12: the suspects of the report are exactly the rows of the call-count
\* feed with more than 1000 calls, a mean time below 10 ms and at most 10
\* rows, in the order of the feed; 5000 calls of 2 ms returning 1 row is a
\* suspect, 5000 calls of 200 ms is not.
C12_SuspectsExactly ==
    spc = "returned" =>
        LET suspects == report.n_plus_one_suspects
        IN  /\ Len(suspects) = Cardinality(SuspectRows)
            /\ \A k \in SuspectRows :
                  LET e == suspects[Cardinality({i \in SuspectRows : i <= k})]
                  IN  /\ e.query = Strip(calls_feed[k].query)
                      /\ e.calls = calls_feed[k].calls
                      /\ e.rows_per_call = calls_feed[k].rows
            /\ \A k \in 1..Len(calls_feed) :
                  LET r == calls_feed[k]
                  IN  /\ (r.calls = 5000 /\ r.mean_time = 2000 /\ r.rows = 1)
                         => \E j \in 1..Len(suspects) :
                               suspects[j].query = Strip(r.query)
                      /\ (r.calls = 5000 /\ r.mean_time = 200000)
                         => \A j \in 1..Len(suspects) :
                               suspects[j].query # Strip(r.query)

\* C12 witness: a report whose call-count feed of four rows holds the row
\* of 5000 calls of 2 ms, the row of 5000 calls of 200 ms and a row of a
\* mean time of exactly 10 ms, and lists two suspects
C12_Witness ==
    /\ spc = "returned" /\ Len(calls_feed) = 4
    /\ \E k \in 1..4 : calls_feed[k].mean_time = 2000
    /\ \E k \in 1..4 : calls_feed[k].mean_time = 200000
    /\ \E k \in 1..4 : calls_feed[k].mean_time = 10000
    /\ Len(report.n_plus_one_suspects) = 2

-----------------------------------------------------------------------------
(* Properties of a second call of recommend_indexes *)

\* The visited node was decided on the rows the catalog holds for its table
\* now, fetched by one lookup of this call
DecidedOnCatalog(v) ==
    LET relation == RelationOf(v)
        rows     == get_existing_indexes(catalog, relation)
    IN  Truthy(relation) =>
            /\ Cardinality(FetchesOf(relation)) = 1
            /\ v.existing = rows
            /\ v.advice = NodeAdvice(NodeAt(query, v.path),
                                     [r \in {relation} |-> rows], hash_seed)

\* C14: nothing the first call fetched is visible to the second: the second
\* call fetches the index set of every table its plan names again, once,
\* and decides every node on what the catalog holds during that call.
C14_MemoPerCall ==
    previous # Pending =>
        \A j \in 1..Len(visits) : DecidedOnCatalog(visits[j])

\* C14 witness: the first call advised an index on (a, qty); the index was
\* created before the second call, which fetched the indexes of t again
\* and advised nothing for the scan
C14_Witness ==
    /\ pc = "returned" /\ IsReturned(previous) /\ changed
    /\ query = ScanAQty
    /\ previous.returned # <<>>
    /\ previous.returned[1].priority = "high"
    /\ Cardinality(FetchesOf(TableT)) = 1
    /\ visits[1].existing # {}
    /\ visits[1].advice = <<>>

-----------------------------------------------------------------------------
(* Properties of the order of the plan walk *)

\* The paths of the nodes of a plan, depth first, a node before its
\* descendants and the subtree of child i before that of child i + 1
RECURSIVE PreOrder(_, _)
RECURSIVE PreOrderOfChildren(_, _, _)
PreOrder(node, path) ==
    <<path>> \o PreOrderOfChildren(node, path, 1)
PreOrderOfChildren(node, path, i) ==
    IF i > Len(Get(node, "Plans", <<>>)) THEN <<>>
    ELSE PreOrder(node["Plans"][i], Append(path, i))
            \o PreOrderOfChildren(node, path, i + 1)

\* Scan advice 1, join advice 2, sort advice 3
RankOf(rec) ==
    IF rec.message.about \in {"Seq Scan with filter", "Seq Scan without filter"}
    THEN 1
    ELSE IF rec.message.about = "Nested Loop with Join Filter" THEN 2 ELSE 3

\* The plan-derived recommendations of a list: all but the drop_index ones
PlanDerived(recs) == SelectSeq(recs, LAMBDA r : r.type # "drop_index")

\* C15: the nodes are visited in depth-first pre-order, the plan-derived
\* recommendations are those of the visited nodes in the order of the
\* visits, and within a node the scan recommendation comes before the join
\* recommendation and that before the sort-order recommendation.
C15_PreOrder ==
    /\ Len(visits) <= Len(PreOrder(query, <<>>))
    /\ \A j \in 1..Len(visits) :
          /\ visits[j].path = PreOrder(query, <<>>)[j]
          /\ \A k, l \in 1..Len(visits[j].advice) :
                k < l => RankOf(visits[j].advice[k]) < RankOf(visits[j].advice[l])
    /\ PlanDerived(recommendations) = AdviceOf(visits)
    /\ pc = "returned" =>
          /\ Len(visits) = Len(PreOrder(query, <<>>))
          /\ PlanDerived(outcome.returned) = AdviceOf(visits)

\* C15 witness: a returned walk of a plan of four nodes of depth two whose
\* first child has a child of its own, every node with two recommendations
C15_Witness ==
    /\ pc = "returned"
    /\ Len(visits) = 4
    /\ visits[3].path = <<1, 1>> /\ visits[4].path = <<2>>
    /\ \A j \in 1..4 : Len(visits[j].advice) = 2
    /\ visits[2].advice # visits[4].advice
    /\ visits[3].advice # visits[4].advice

-----------------------------------------------------------------------------
(* Properties of the scan-level advice *)

\* The scan-level recommendations among the advice of a visited node
ScanLevel(v) == SelectSeq(v.advice, LAMBDA r : RankOf(r) = 1)

\* The visited node is a Seq Scan with a relation
FullScan(v) ==
    /\ Get(NodeAt(query, v.path), "Node Type", <<>>) = SeqScan
    /\ Truthy(RelationOf(v))

\* C16: a Seq Scan node with a relation gets at most one scan-level
\* recommendation: without a filter the medium-priority partitioning
\* suggestion, whatever the catalog holds; with a filter that yields no
\* candidate column none at all, whatever the catalog holds; with a filter
\* that yields candidate columns nothing but the create-index one.
C16_ScanAdviceByFilter ==
    \A j \in 1..Len(visits) :
        LET v      == visits[j]
            filter == Get(NodeAt(query, v.path), "Filter", None)
        IN  FullScan(v) =>
                /\ Len(ScanLevel(v)) <= 1
                /\ ~Truthy(filter) =>
                      /\ Len(ScanLevel(v)) = 1
                      /\ ScanLevel(v)[1].priority = "medium"
                      /\ ScanLevel(v)[1].message.about = "Seq Scan without filter"
                      /\ ScanLevel(v)[1].message.relation = RelationOf(v)
                /\ (Truthy(filter) /\ CandidatesOf(v) = {}) =>
                      ScanLevel(v) = <<>>
                /\ (Truthy(filter) /\ CandidatesOf(v) # {}) =>
                      \A k \in 1..Len(ScanLevel(v)) :
                          ScanLevel(v)[k].priority = "high"

\* C16 witness: a scan of u filtered by (c ~~ 'x%'::text), which yields no
\* candidate column, was visited when u had an index and got nothing
C16_Witness ==
    /\ query = ScanLike
    /\ Len(visits) = 1
    /\ visits[1].existing # {}
    /\ visits[1].advice = <<>>

=============================================================================
